---------------------------- MODULE Spec2Model ----------------------------
(***************************************************************************)
(* Model of quantipy.analysis.DataPreparation (src/quantipy/analysis.py).  *)
(*                                                                         *)
(* A DataFrame is a record [dates, close, change] of equally long          *)
(* sequences: the index (days as integers), the "Adj Close" column and the *)
(* "Change" column (<<>> while the column does not exist).                 *)
(*                                                                         *)
(* A float is a pair <<n, d>>: the rational n/d in lowest terms with       *)
(* d > 0, or <<1,0>> = +inf, <<-1,0>> = -inf, <<0,0>> = NaN.  Arithmetic   *)
(* is exact on finite values and follows IEEE 754 on the special values;   *)
(* rounding of binary floating point is not modelled.                      *)
(***************************************************************************)
EXTENDS Integers, Sequences, FiniteSets, TLC

\* ------------------------------------------------------------------ bounds
\* longest series of a single-series run
MaxRows == 4
\* longest series of the store's last instrument
StoreRows == 3
\* longest series of the store's other instruments
OtherRows == 1
\* prices are NaN or 0..MaxPrice
MaxPrice == 2
\* how many days past the last date the forward search is followed
MaxOverrun == 2

\* --------------------------------------------------- floating-point values
NaN == <<0, 0>>
NotAvailable == <<0, -1>>            \* the string "N/A" of line 215

Abs(i) == IF i < 0 THEN -i ELSE i
Sign(i) == IF i < 0 THEN -1 ELSE IF i > 0 THEN 1 ELSE 0

RECURSIVE GCD(_, _)
GCD(a, b) == IF b = 0 THEN a ELSE GCD(b, a % b)

Norm(n, d) ==
    IF d = 0 THEN <<Sign(n), 0>>
    ELSE LET g == GCD(Abs(n), Abs(d))
             s == Sign(d)
         IN  <<(s * n) \div g, (s * d) \div g>>

Num(i) == <<i, 1>>
IsNaN(x) == x = NaN
IsInf(x) == x[2] = 0 /\ x[1] # 0
IsFinite(x) == x[2] > 0

Neg(x) == <<-x[1], x[2]>>

Add(x, y) ==
    IF IsNaN(x) \/ IsNaN(y) THEN NaN
    ELSE IF IsInf(x) /\ IsInf(y) THEN (IF x = y THEN x ELSE NaN)
    ELSE IF IsInf(x) THEN x
    ELSE IF IsInf(y) THEN y
    ELSE Norm(x[1] * y[2] + y[1] * x[2], x[2] * y[2])

Sub(x, y) == Add(x, Neg(y))

Mul(x, y) == Norm(x[1] * y[1], x[2] * y[2])

Inv(x) == IF x[1] < 0 THEN <<-x[2], -x[1]>> ELSE <<x[2], x[1]>>

Div(x, y) == Mul(x, Inv(y))

\* -1, 0, 1 for -inf, finite, +inf
Ext(x) == IF x[2] = 0 THEN x[1] ELSE 0

Lt(x, y) ==
    /\ ~IsNaN(x)
    /\ ~IsNaN(y)
    /\ IF IsFinite(x) /\ IsFinite(y)
       THEN x[1] * y[2] < y[1] * x[2]
       ELSE Ext(x) < Ext(y)

Eq(x, y) == ~IsNaN(x) /\ ~IsNaN(y) /\ x = y

Le(x, y) == Lt(x, y) \/ Eq(x, y)

\* ------------------------------------------------------------- DataFrames
Range(s) == {s[i] : i \in 1..Len(s)}

RECURSIVE SortedSeq(_)
SortedSeq(S) ==
    IF S = {} THEN <<>>
    ELSE LET m == CHOOSE x \in S : \A y \in S : x <= y
         IN  <<m>> \o SortedSeq(S \ {m})

Prices == {NaN} \cup {Num(p) : p \in 0..MaxPrice}

\* index of a DataFrame: strictly increasing dates taken from `choices`
Indexes(choices, maxrows) ==
    {SortedSeq(S) : S \in {T \in SUBSET choices :
                              Cardinality(T) \in 1..maxrows}}

RawFrames(choices, maxrows) ==
    UNION {{[dates |-> ix, close |-> c, change |-> <<>>] :
               c \in [1..Len(ix) -> Prices]} : ix \in Indexes(choices, maxrows)}

LastDate(df) == df.dates[Len(df.dates)]

HasDate(df, day) == day \in Range(df.dates)

\* dataframe.loc[day, column]; KeyError when ~HasDate(df, day)
Loc(df, day, column) ==
    LET i == CHOOSE j \in 1..Len(df.dates) : df.dates[j] = day
    IN  column[i]

\* ------------------------------------------------------- determine_change
\* lines 96-101: changes = [0]; (new - old) / old * 100 for each later row
\* (numpy floats: a division by zero gives inf or NaN and a warning)
RawChanges(closes) ==
    [i \in 1..Len(closes) |->
        IF i = 1 THEN Num(0)
        ELSE Mul(Div(Sub(closes[i], closes[i - 1]), closes[i - 1]), Num(100))]

\* numpy.interp between the valid neighbours lo < i < hi (positions, not dates)
InterpAt(col, lo, hi, i) ==
    LET slope == Div(Sub(col[hi], col[lo]), Num(hi - lo))
        r1 == Add(Mul(slope, Num(i - lo)), col[lo])
        r2 == Add(Mul(slope, Num(i - hi)), col[hi])
    IN  IF ~IsNaN(r1) THEN r1
        ELSE IF ~IsNaN(r2) THEN r2
        ELSE IF col[lo] = col[hi] THEN col[lo]
        ELSE NaN

\* Series.interpolate(method="linear"), limit_direction forward: a NaN after
\* the first valid value is filled (linearly, or with the last valid value
\* when none follows); a NaN before the first valid value stays
Interpolate(col) ==
    [i \in 1..Len(col) |->
        IF ~IsNaN(col[i]) THEN col[i]
        ELSE LET before == {j \in 1..(i - 1) : ~IsNaN(col[j])}
                 after == {j \in (i + 1)..Len(col) : ~IsNaN(col[j])}
                 lo == CHOOSE j \in before : \A k \in before : k <= j
                 hi == CHOOSE j \in after : \A k \in after : j <= k
             IN  IF before = {} THEN NaN
                 ELSE IF after = {} THEN col[lo]
                 ELSE InterpAt(col, lo, hi, i)]

\* variant of DetermineChange: a zero price is taken for a missing one and filled
ZeroAsMissing(col) == [i \in 1..Len(col) |-> IF col[i] = Num(0) THEN NaN ELSE col[i]]

DetermineChangeZeroAsMissing(df, clean) ==
    LET changes == RawChanges(df.close)
    IN  IF clean
        THEN [dates |-> df.dates,
              close |-> Interpolate(ZeroAsMissing(df.close)),
              change |-> Interpolate(changes)]
        ELSE [dates |-> df.dates, close |-> df.close, change |-> changes]

\* lines 96-108: the Change column is built from the closes as they are,
\* then DataFrame.interpolate(inplace=True) runs over every column
DetermineChange(df, clean) ==
    LET changes == RawChanges(df.close)
    IN  IF clean
        THEN [dates |-> df.dates,
              close |-> Interpolate(df.close),
              change |-> Interpolate(changes)]
        ELSE [dates |-> df.dates, close |-> df.close, change |-> changes]


\* -------------------------------------------------------- biggest_changes
\* numpy.sort: ascending, NaN last
Before(x, y) == IsNaN(y) \/ Le(x, y)

RemoveAt(s, i) == [j \in 1..(Len(s) - 1) |-> IF j < i THEN s[j] ELSE s[j + 1]]

RECURSIVE Sort(_)
Sort(s) ==
    IF Len(s) = 0 THEN <<>>
    ELSE LET i == CHOOSE j \in 1..Len(s) : \A k \in 1..Len(s) : Before(s[j], s[k])
         IN  <<s[i]>> \o Sort(RemoveAt(s, i))

\* numpy's _lerp(a, b, t)
Lerp(a, b, t) ==
    LET diff == Sub(b, a)
    IN  IF Le(Norm(1, 2), t)
        THEN Sub(b, Mul(diff, Sub(Num(1), t)))
        ELSE Add(a, Mul(diff, t))

\* numpy.percentile(sorted, q), method "linear": NaN when a NaN is present;
\* otherwise the virtual index (n - 1) * q / 100 is split into the element
\* below it and the fraction gamma towards the next one (at or above the
\* last element both neighbours are the last element)
Percentile(sorted, q) ==
    LET n == Len(sorted)
        v == Norm((n - 1) * q, 100)
        floor == v[1] \div v[2]
    IN  IF \E i \in 1..n : IsNaN(sorted[i]) THEN NaN
        ELSE IF Le(Num(n - 1), v)
        THEN Lerp(sorted[n], sorted[n], Add(v, Num(1)))
        ELSE Lerp(sorted[floor + 1], sorted[floor + 2], Sub(v, Num(floor)))

\* df[mask].index: the dates of the rows whose mask entry is true, in row order
RECURSIVE BooleanIndex(_, _, _)
BooleanIndex(df, mask, i) ==
    IF i > Len(df.dates) THEN <<>>
    ELSE (IF mask[i] THEN <<df.dates[i]>> ELSE <<>>) \o BooleanIndex(df, mask, i + 1)

\* variant of SelectDates: >= in place of > above the 50th percentile
SelectDatesInclusiveAbove(df, P, percentile) ==
    IF percentile <= 50
    THEN BooleanIndex(df, [i \in 1..Len(df.change) |-> Le(df.change[i], P)], 1)
    ELSE BooleanIndex(df, [i \in 1..Len(df.change) |-> Le(P, df.change[i])], 1)

\* lines 138-144: df[df["Change"] <= P] or df[df["Change"] > P], then .index
SelectDates(df, P, percentile) ==
    IF percentile <= 50
    THEN BooleanIndex(df, [i \in 1..Len(df.change) |-> Le(df.change[i], P)], 1)
    ELSE BooleanIndex(df, [i \in 1..Len(df.change) |-> Lt(P, df.change[i])], 1)

\* lines 126-146, one entry of the returned dictionary
ShockSet(df, percentile) ==
    LET sorted == Sort(df.change)
        P == Percentile(sorted, percentile)
    IN  [Data |-> sorted, P |-> P, percentile |-> percentile,
         Dates |-> SelectDates(df, P, percentile)]

BiggestChanges(dataframes, percentile) ==
    [k \in DOMAIN dataframes |-> ShockSet(dataframes[k], percentile)]

\* ------------------------------------------------------- determine_effect
\* lines 184-188: 1 day, then 1, 4, 12, 26 and 52 weeks
Horizons == <<1, 1 * 7, 4 * 7, 12 * 7, 26 * 7, 52 * 7>>
Labels == <<"1D", "1W", "4W", "12W", "26W", "52W">>
Columns == {"Index", "Date", "Close", "Drop"} \cup Range(Labels)

\* lines 159-170 and 249-260
EmptyEffect == [c \in Columns |-> <<>>]

\* variant of Available: < in place of <=
AvailableUpToDayBefore(df, target) == target < LastDate(df)

\* line 196
Available(df, target) == target <= LastDate(df)

\* variant of FoundAt: the test `new == 0` left out
FoundAtAnyRow(df, day) == HasDate(df, day)

\* lines 199-208, one pass of the while loop at date[1] + add: the lookup
\* raises KeyError (caught) or gives a price, and a price equal to 0 is passed

FoundAt(df, day) == HasDate(df, day) /\ ~Eq(Loc(df, day, df.close), Num(0))

\* line 211, with old = effect["Close"][-1]
Return(new, old) == Mul(Div(Sub(new, old), old), Num(100))

\* the while loop of lines 197-208 run to its end: the number of days added
\* when it stops, or -1 when it passes the last date, after which every
\* lookup raises KeyError and the loop never stops
RECURSIVE SearchFrom(_, _, _)
SearchFrom(df, target, add) ==
    IF target + add > LastDate(df) THEN -1
    ELSE IF FoundAt(df, target + add) THEN add
    ELSE SearchFrom(df, target, add + 1)

\* lines 191-215 for one entry of new_dates
HorizonEffect(df, day, h) ==
    LET target == day + Horizons[h]
        add == SearchFrom(df, target, 0)
    IN  IF Available(df, target)
        THEN Return(Loc(df, target + add, df.close), Loc(df, day, df.close))
        ELSE NotAvailable

Diverges(df, shocks) ==
    \E i \in 1..Len(shocks.Dates), h \in 1..Len(Horizons) :
        /\ Available(df, shocks.Dates[i] + Horizons[h])
        /\ SearchFrom(df, shocks.Dates[i] + Horizons[h], 0) = -1

\* lines 159-217, when every search stops
DetermineEffect(df, shocks, index) ==
    LET n == Len(shocks.Dates)
    IN  [c \in Columns |->
            [i \in 1..n |->
                LET day == shocks.Dates[i]
                IN  CASE c = "Index" -> index
                      [] c = "Date" -> day
                      [] c = "Close" -> Loc(df, day, df.close)
                      [] c = "Drop" -> Loc(df, day, df.change)
                      [] OTHER -> HorizonEffect(df, day,
                                     CHOOSE h \in 1..Len(Labels) : Labels[h] = c)]]

\* ---------------------------------------------- update_effects, check_effect
\* lines 222-229
UpdateEffects(effects, effect) == [c \in DOMAIN effects |-> effects[c] \o effect[c]]

RECURSIVE ForAllIndices(_, _, _, _)
ForAllIndices(effects, dataframes, shocks, keys) ==
    IF keys = <<>> THEN effects
    ELSE ForAllIndices(
             UpdateEffects(effects,
                 DetermineEffect(dataframes[Head(keys)], shocks[Head(keys)], Head(keys))),
             dataframes, shocks, Tail(keys))

\* variant of CheckEffect: the loop over all indices only runs for "All"
CheckEffectOnlyGiven(dataframes, shocks, index, keys) ==
    IF index # "All"
    THEN DetermineEffect(dataframes[index], shocks[index], index)
    ELSE ForAllIndices(EmptyEffect, dataframes, shocks, keys)

\* lines 249-271; `keys` is dataframes.keys(), the order of insertion
CheckEffect(dataframes, shocks, index, keys) ==
    LET first == IF index # "All"
                 THEN UpdateEffects(EmptyEffect,
                          DetermineEffect(dataframes[index], shocks[index], index))
                 ELSE EmptyEffect
    IN  ForAllIndices(first, dataframes, shocks, keys)

\* the calls of determine_effect that check_effect makes, in order
EffectCalls(index, keys) == (IF index # "All" THEN <<index>> ELSE <<>>) \o keys

\* ------------------------------------------------------------------ state
VARIABLES
    data,       \* self.data: index name -> DataFrame
    changes,    \* self.changes (prepare) or the dictionary biggest_changes returned
    phase,      \* where the caller or determine_effect stands
    cur,        \* determine_effect's loop variables
    effect,     \* determine_effect's dictionary `effect`
    last        \* the latest call of prepare: arguments and outcome

vars == <<data, changes, phase, cur, effect, last>>

NoChanges == <<>>
NoCursor == [di |-> 0, hi |-> 0, add |-> 0]
NoCall == [percentile |-> 0, index |-> "", outcome |-> "none", table |-> EmptyEffect]

\* -------------------------------------- one series, determine_effect by steps
SeriesKey == "AEX"
SeriesDates == {0, 1, 2, 7, 364}
SeriesPercentiles == {50, 75, 100}

Frame == data[SeriesKey]
Shocks == changes[SeriesKey]
ShockDay == Shocks.Dates[cur.di]
Target == ShockDay + Horizons[cur.hi]

InitSeries ==
    /\ data \in [{SeriesKey} -> RawFrames(SeriesDates, MaxRows)]
    /\ changes = NoChanges
    /\ phase = "loaded"
    /\ cur = NoCursor
    /\ effect = EmptyEffect
    /\ last = NoCall

\* determine_change(dataframe, clean), lines 85-108
CallDetermineChange(clean) ==
    /\ phase = "loaded"
    /\ data' = [data EXCEPT ![SeriesKey] = DetermineChange(@, clean)]
    /\ phase' = "changed"
    /\ UNCHANGED <<changes, cur, effect, last>>

\* biggest_changes(dataframes, percentile), lines 110-146
CallBiggestChanges(percentile) ==
    /\ phase = "changed"
    /\ changes' = BiggestChanges(data, percentile)
    /\ phase' = "selected"
    /\ UNCHANGED <<data, cur, effect, last>>

\* determine_effect is entered, lines 159-173
CallDetermineEffect ==
    /\ phase = "selected"
    /\ effect' = EmptyEffect
    /\ cur' = [di |-> 1, hi |-> 1, add |-> 0]
    /\ phase' = IF Len(Shocks.Dates) = 0 THEN "returned" ELSE "date"
    /\ UNCHANGED <<data, changes, last>>

\* lines 173-188: the next shock date, its four known columns
ShockDate ==
    /\ phase = "date"
    /\ effect' = [effect EXCEPT
                     !["Index"] = Append(@, SeriesKey),
                     !["Date"] = Append(@, ShockDay),
                     !["Close"] = Append(@, Loc(Frame, ShockDay, Frame.close)),
                     !["Drop"] = Append(@, Loc(Frame, ShockDay, Frame.change))]
    /\ cur' = [cur EXCEPT !.hi = 1, !.add = 0]
    /\ phase' = "horizon"
    /\ UNCHANGED <<data, changes, last>>

\* the end of one pass of `for date in new_dates`
NextHorizon ==
    IF cur.hi < Len(Horizons)
    THEN /\ cur' = [cur EXCEPT !.hi = @ + 1, !.add = 0]
         /\ phase' = "horizon"
    ELSE IF cur.di < Len(Shocks.Dates)
    THEN /\ cur' = [cur EXCEPT !.di = @ + 1, !.hi = 1, !.add = 0]
         /\ phase' = "date"
    ELSE /\ cur' = cur
         /\ phase' = "returned"

\* lines 191-196 and 213-215
Horizon ==
    /\ phase = "horizon"
    /\ IF Available(Frame, Target)
       THEN /\ phase' = "search"
            /\ cur' = [cur EXCEPT !.add = 0]
            /\ effect' = effect
       ELSE /\ effect' = [effect EXCEPT ![Labels[cur.hi]] = Append(@, NotAvailable)]
            /\ NextHorizon
    /\ UNCHANGED <<data, changes, last>>

\* lines 197-211: one pass of `while not date_found`
SearchStep ==
    /\ phase = "search"
    /\ Target + cur.add <= LastDate(Frame) + MaxOverrun
    /\ IF FoundAt(Frame, Target + cur.add)
       THEN /\ effect' = [effect EXCEPT ![Labels[cur.hi]] =
                 Append(@, Return(Loc(Frame, Target + cur.add, Frame.close),
                                  effect["Close"][Len(effect["Close"])]))]
            /\ NextHorizon
       ELSE /\ cur' = [cur EXCEPT !.add = @ + 1]
            /\ UNCHANGED <<effect, phase>>
    /\ UNCHANGED <<data, changes, last>>

NextSeries ==
    \/ \E clean \in BOOLEAN : CallDetermineChange(clean)
    \/ \E percentile \in SeriesPercentiles : CallBiggestChanges(percentile)
    \/ CallDetermineEffect
    \/ ShockDate
    \/ Horizon
    \/ SearchStep

SpecSeries == InitSeries /\ [][NextSeries]_vars

\* ------------------------------------------------- the store and prepare
\* dataframes.keys(): the order in which read_data found the files
Keys == <<"DJI", "AEX">>
Unknown == "FTSE"
StorePercentiles == {0, 50, 101}

\* one row per trading day
StoreIndexes(maxrows) == {[i \in 1..n |-> i - 1] : n \in 1..maxrows}

StoreFrames(maxrows) ==
    UNION {{[dates |-> ix, close |-> c, change |-> <<>>] :
               c \in [1..Len(ix) -> Prices]} : ix \in StoreIndexes(maxrows)}

Stores ==
    {d \in [Range(Keys) -> StoreFrames(StoreRows)] :
        \A i \in 1..(Len(Keys) - 1) : Len(d[Keys[i]].dates) <= OtherRows}

Init ==
    /\ data \in Stores
    /\ changes = NoChanges
    /\ phase = "idle"
    /\ cur = NoCursor
    /\ effect = EmptyEffect
    /\ last = NoCall

\* variant of ValidArguments: the assertion of line 291 left out
ValidArgumentsAnyPercentile(percentile, index) ==
    index # "All" => index \in Range(Keys)

\* lines 287-291
ValidArguments(percentile, index) ==
    /\ index # "All" => index \in Range(Keys)
    /\ 0 < percentile /\ percentile <= 100

\* lines 294-295
ChangeAll(dataframes) == [k \in DOMAIN dataframes |-> DetermineChange(dataframes[k], TRUE)]

\* prepare(percentile, index), lines 273-301.  A failed assertion leaves the
\* object as it was; otherwise the data and self.changes are replaced before
\* check_effect runs, and check_effect returns the table unless one of its
\* searches never stops
Prepare(percentile, index) ==
    /\ phase = "idle"
    /\ IF ~ValidArguments(percentile, index)
       THEN /\ last' = [percentile |-> percentile, index |-> index,
                        outcome |-> "AssertionError", table |-> EmptyEffect]
            /\ UNCHANGED <<data, changes, phase>>
       ELSE /\ data' = ChangeAll(data)
            /\ changes' = BiggestChanges(data', percentile)
            /\ phase' = IF \E k \in Range(EffectCalls(index, Keys)) :
                               Diverges(data'[k], changes'[k])
                        THEN "hung" ELSE "idle"
            /\ last' = [percentile |-> percentile, index |-> index,
                        outcome |-> IF phase' = "hung" THEN "never returns"
                                    ELSE "returned",
                        table |-> IF phase' = "hung" THEN EmptyEffect
                                  ELSE CheckEffect(data', changes', index, Keys)]
    /\ UNCHANGED <<cur, effect>>

Next ==
    \E percentile \in StorePercentiles, index \in {"All", Keys[2], Unknown} :
        Prepare(percentile, index)

Spec == Init /\ [][Next]_vars

\* ----------------------------------------------------------------- claims
\* determine_effect is between two appends or has returned (a pass of the
\* search loop that finds nothing leaves `effect` as the state before it)
InEffect == phase \in {"date", "horizon", "returned"}

\* the effect entries determine_effect has appended so far: <<h, i>> is the
\* entry of horizon h for the i-th shock date
Recorded == {e \in (1..Len(Horizons)) \X (1..Len(effect["Date"])) :
                e[2] <= Len(effect[Labels[e[1]]])}

EntryDay(e) == effect["Date"][e[2]]
EntryTarget(e) == EntryDay(e) + Horizons[e[1]]
EntryValue(e) == effect[Labels[e[1]]][e[2]]

\* the dates from `target` on that are in the series with a price that is
\* neither zero nor missing
PricedDays(df, target) ==
    {d \in Range(df.dates) :
        /\ d >= target
        /\ Loc(df, d, df.close) # Num(0)
        /\ Loc(df, d, df.close) # NaN}

Earliest(S) == CHOOSE d \in S : \A e \in S : d <= e

\* C1: every effect recorded for a target date T = D + h that is not after
\* the last date equals (p - close[D]) / close[D] * 100, p being the price
\* at the earliest date >= T that is in the series with a price that is
\* neither zero nor missing (close[T] itself when T is such a date), and
\* close[D] the close on the shock date.
C1_ForwardReturn ==
    InEffect =>
        \A e \in Recorded :
            LET priced == PricedDays(Frame, EntryTarget(e))
                p == Loc(Frame, Earliest(priced), Frame.close)
                closeD == Loc(Frame, EntryDay(e), Frame.close)
            IN  (EntryTarget(e) <= LastDate(Frame) /\ priced # {}) =>
                    /\ EntryValue(e) = Mul(Div(Sub(p, closeD), closeD), Num(100))
                    /\ EntryTarget(e) \in priced =>
                           p = Loc(Frame, EntryTarget(e), Frame.close)

\* a return computed from a later day because the target day holds a zero
\* price, and one computed past a day that is not in the series
C1_Witness ==
    /\ phase = "returned"
    /\ \E e \in Recorded :
          /\ HasDate(Frame, EntryTarget(e))
          /\ Loc(Frame, EntryTarget(e), Frame.close) = Num(0)
          /\ IsFinite(EntryValue(e))
          /\ EntryValue(e) # Num(0)
    /\ \E e \in Recorded :
          /\ EntryTarget(e) <= LastDate(Frame)
          /\ ~HasDate(Frame, EntryTarget(e))
          /\ IsFinite(EntryValue(e))

\* C2: the forward search of a target date that is not after the last date
\* ends inside the series: it never goes on to a date after the last one
\* (there it would have to fail with DataLookupError).
C2_SearchEndsInSeries ==
    phase = "search" => Target + cur.add <= LastDate(Frame)

\* C3: the selected dates are exactly the dates whose change is <= P when
\* percentile <= 50 and exactly those whose change is > P when
\* percentile > 50, listed in ascending date order.
C3_Selection ==
    phase \in {"selected", "date", "horizon", "search", "returned"} =>
        LET df == Frame
            P == Shocks.P
            picked == Shocks.Dates
            wanted == {df.dates[i] : i \in {j \in 1..Len(df.dates) :
                          IF Shocks.percentile <= 50
                          THEN Le(df.change[j], P)
                          ELSE Lt(P, df.change[j])}}
        IN  /\ Range(picked) = wanted
            /\ \A i \in 1..(Len(picked) - 1) : picked[i] < picked[i + 1]

\* a change equal to P is selected in the <= mode, and the selected dates
\* are in date order while their changes are not in ascending order
C3_Witness ==
    /\ phase = "selected"
    /\ Shocks.percentile <= 50
    /\ Len(Shocks.Dates) >= 2
    /\ \E d \in Range(Shocks.Dates) : Loc(Frame, d, Frame.change) = Shocks.P
    /\ Lt(Loc(Frame, Shocks.Dates[2], Frame.change),
          Loc(Frame, Shocks.Dates[1], Frame.change))

\* C4: a recorded effect is "N/A" exactly when its target date D + h is
\* after the last date of the series.
C4_NotAvailable ==
    InEffect =>
        \A e \in Recorded :
            EntryValue(e) = NotAvailable <=> EntryTarget(e) > LastDate(Frame)

\* a target date equal to the last date got a computed return, and another
\* entry of the same run is "N/A"
C4_Witness ==
    /\ phase = "returned"
    /\ \E e \in Recorded :
          EntryTarget(e) = LastDate(Frame) /\ IsFinite(EntryValue(e))
    /\ \E e \in Recorded : EntryValue(e) = NotAvailable

\* C8: after determine_change no change value is infinite (a zero prior
\* close fails with ArithmeticError instead of storing inf).
C8_NoInfiniteChange ==
    phase # "loaded" =>
        \A i \in 1..Len(Frame.change) : ~IsInf(Frame.change[i])

\* C10 as stated: determine_change leaves the dates and every entry of the
\* price column as it was (a missing price stays missing), and the later
\* steps leave the DataFrame as it is.
C10_PricesUntouched ==
    [][/\ data'[SeriesKey].dates = data[SeriesKey].dates
       /\ data'[SeriesKey].close = data[SeriesKey].close
       /\ phase # "loaded" => data' = data]_vars

\* the value linear interpolation by row position gives row i of `col`
\* from the nearest recorded entries around it: the last recorded one when
\* none follows
Filled(col, i) ==
    LET before == {j \in 1..(i - 1) : ~IsNaN(col[j])}
        after == {j \in (i + 1)..Len(col) : ~IsNaN(col[j])}
        lo == CHOOSE j \in before : \A k \in before : k <= j
        hi == CHOOSE j \in after : \A k \in after : j <= k
    IN  IF after = {} THEN col[lo]
        ELSE Add(col[lo], Mul(Sub(col[hi], col[lo]), Norm(i - lo, hi - lo)))

\* C10 (amended): determine_change leaves the dates and every recorded
\* (not missing) price as it was; a missing price is either still missing
\* or, when a recorded price precedes it, replaced by the value interpolated
\* between its recorded neighbours; biggest_changes and determine_effect
\* leave the DataFrame, prices and changes, as it is.
C10_RecordedPricesKept ==
    [][/\ data'[SeriesKey].dates = data[SeriesKey].dates
       /\ \A i \in 1..Len(data[SeriesKey].close) :
              LET old == data[SeriesKey].close
                  new == data'[SeriesKey].close
              IN  IF ~IsNaN(old[i]) THEN new[i] = old[i]
                  ELSE \/ IsNaN(new[i])
                       \/ /\ \E j \in 1..(i - 1) : ~IsNaN(old[j])
                          /\ new[i] = Filled(old, i)
       /\ phase # "loaded" => data' = data]_vars

\* determine_effect has returned for a DataFrame one of whose prices was
\* filled in between two recorded ones, next to a recorded zero price
C10_Witness ==
    /\ phase = "returned"
    /\ Len(effect["Date"]) >= 1
    /\ \E i \in 1..Len(Frame.close) : Frame.close[i][2] > 1
    /\ \E i \in 1..Len(Frame.close) : Frame.close[i] = Num(0)

\* the rows of a table, as records
Rows(table) == [i \in 1..Len(table["Index"]) |-> [c \in Columns |-> table[c][i]]]

RECURSIVE Concat(_)
Concat(seqs) == IF seqs = <<>> THEN <<>> ELSE Head(seqs) \o Concat(Tail(seqs))

Returned == last.outcome = "returned"

ArgumentsInRange(call) ==
    /\ call.index \in {"All"} \cup Range(Keys)
    /\ call.percentile > 0
    /\ call.percentile <= 100

\* C6: a call of prepare with a percentile outside (0, 100] or a scope that
\* is neither "All" nor a loaded instrument fails with an error, returns no
\* table and leaves the data and the stored shock sets as they were.
C6_InvalidArguments ==
    [][~ArgumentsInRange(last') =>
          /\ last'.outcome = "AssertionError"
          /\ last'.table = EmptyEffect
          /\ data' = data
          /\ changes' = changes]_vars

\* a call refused after an earlier call had attached the changes
C6_Witness ==
    /\ last.outcome = "AssertionError"
    /\ last.percentile > 100
    /\ changes # NoChanges
    /\ \A k \in Range(Keys) : Len(data[k].change) = Len(data[k].dates)

\* C7: a call of prepare that repeats the percentile and the scope of the
\* call before it returns the same table.
C7_SameTableTwice ==
    [][(/\ last.outcome = "returned"
        /\ last'.outcome = "returned"
        /\ last'.percentile = last.percentile
        /\ last'.index = last.index) => last'.table = last.table]_vars

\* C9: with a scope naming one instrument, every row of the returned table
\* carries that instrument's identifier.
C9_OnlyGivenIndex ==
    (Returned /\ last.index # "All") =>
        \A i \in 1..Len(last.table["Index"]) : last.table["Index"][i] = last.index

=============================================================================
